---- MODULE Spec2Model ----
(***************************************************************************)
(* Knowledge-graph generator: the graph store (applyExtraction), the       *)
(* consolidation engine (applyIntegration), checkpoint persistence and the *)
(* processing pipeline (processQueue and its UI handlers).                 *)
(*                                                                         *)
(* Strings that the code inspects character by character (names, ids,      *)
(* relationship types) are sequences of one-character strings.  Strings    *)
(* the code only copies and compares for equality (titles, descriptions,   *)
(* notes) are TLA+ strings.  ISO dates are compared by the code with the   *)
(* string order; they are modelled by naturals in the same order, with 0   *)
(* for the empty string (the least string, and the only falsy one).        *)
(***************************************************************************)
EXTENDS Integers, Sequences, FiniteSets, TLC

(***************************************************************************)
(* utils.ts: generateId                                                    *)
(***************************************************************************)
MaxIdLen == 100

Lower == {"a", "b", "c", "d", "e", "i", "r", "s", "t", "l", "f", "n", "u"}

Digits == {"0", "1"}

ToLowerCase(ch) ==
  CASE ch = "A" -> "a"
    [] ch = "B" -> "b"
    [] ch = "C" -> "c"
    [] OTHER -> ch

IsAlnum(ch) == ch \in Lower \cup Digits

MapLower(s) == [i \in 1..Len(s) |-> ToLowerCase(s[i])]

\* .replace(/[^a-z0-9]+/g, '-'): every maximal run of other characters
\* becomes one hyphen
CollapseRuns(s) ==
  LET marked == [i \in 1..Len(s) |->
                   IF IsAlnum(s[i]) THEN s[i]
                   ELSE IF i < Len(s) /\ ~IsAlnum(s[i + 1]) THEN "" ELSE "-"]
      Kept(ch) == ch # ""
  IN  SelectSeq(marked, Kept)

\* .replace(/^-|-$/g, ''): one hyphen at the start and one at the end
TrimHyphens(s) ==
  LET a == IF s # <<>> /\ Head(s) = "-" THEN Tail(s) ELSE s
  IN  IF a # <<>> /\ a[Len(a)] = "-" THEN SubSeq(a, 1, Len(a) - 1) ELSE a

Slice(s, n) == SubSeq(s, 1, IF Len(s) < n THEN Len(s) ELSE n)

GenerateId(name) == Slice(TrimHyphens(CollapseRuns(MapLower(name))), MaxIdLen)

(***************************************************************************)
(* utils.ts: retryWithBackoff, and its use by extractFromPost              *)
(*                                                                         *)
(* The attempts of fn are given by the list of their outcomes: a response  *)
(* or an error.  The result records what the caller sees, how many         *)
(* attempts were made and the delays awaited, in order.                    *)
(***************************************************************************)
\* retryWithBackoff(..., 3, 2000) and delay(1000) in extractFromPost
ExtractRetries == 3
ExtractBaseDelayMs == 2000
RateLimitDelayMs == 1000

RECURSIVE Pow2(_)
Pow2(n) == IF n = 0 THEN 1 ELSE 2 * Pow2(n - 1)

\* the for loop of retryWithBackoff from `attempt` on
RECURSIVE RetryLoop(_, _, _, _, _, _)
RetryLoop(outcomes, attempt, maxRetries, baseDelayMs, lastError, delays) ==
  IF attempt < maxRetries
  THEN LET outcome == outcomes[attempt + 1] IN
       IF outcome.ok
       THEN [threw |-> FALSE, value |-> outcome.value,
             attempts |-> attempt + 1, delays |-> delays]
       ELSE RetryLoop(outcomes, attempt + 1, maxRetries, baseDelayMs, outcome.error,
                      IF attempt < maxRetries - 1
                      THEN Append(delays, baseDelayMs * Pow2(attempt))
                      ELSE delays)
  ELSE [threw |-> TRUE, value |-> lastError, attempts |-> attempt, delays |-> delays]

\* faulty variant of RetryWithBackoff: exhaustion gives an empty result
RetryWithBackoffSwallows(outcomes, maxRetries, baseDelayMs) ==
  LET r == RetryLoop(outcomes, 0, maxRetries, baseDelayMs, "undefined", <<>>)
  IN  IF r.threw THEN [r EXCEPT !.threw = FALSE, !.value = "empty"] ELSE r

RetryWithBackoff(outcomes, maxRetries, baseDelayMs) ==
  RetryLoop(outcomes, 0, maxRetries, baseDelayMs, "undefined", <<>>)

\* extractFromPost from the call of retryWithBackoff to its return
ExtractFromPostAttempts(outcomes) ==
  LET r == RetryWithBackoff(outcomes, ExtractRetries, ExtractBaseDelayMs)
  IN  IF r.threw THEN r ELSE [r EXCEPT !.delays = Append(@, RateLimitDelayMs)]

\* what one attempt may do: answer, or fail with an error
Outcomes ==
  { [ok |-> TRUE, value |-> "r1"], [ok |-> TRUE, value |-> "r2"],
    [ok |-> FALSE, error |-> "e1"], [ok |-> FALSE, error |-> "e2"],
    [ok |-> FALSE, error |-> "e3"] }

OutcomeLists == [1..ExtractRetries -> Outcomes]

(***************************************************************************)
(* anthropic.ts: parseExtractionResponse                                   *)
(*                                                                         *)
(* A response is text that is not JSON, or a JSON object whose fields      *)
(* entities, concepts and relationships are each undefined, null, a        *)
(* string, or an array whose elements are objects or null.                 *)
(***************************************************************************)
Undefined == [kind |-> "undefined"]

JsonNull == [kind |-> "null"]

\* a non-empty string: truthy, and not an array
JsonString == [kind |-> "string"]

JsonArray(items) == [kind |-> "array", items |-> items]

\* an exception thrown inside the try block
TypeError == [kind |-> "TypeError"]

\* (value || []).map(callback), before the callback's result is used: a
\* string has no map, and the callback reads a property of each element,
\* which throws on null
MapOrDefault(value) ==
  IF value.kind \in {"undefined", "null"} THEN <<>>
  ELSE IF value.kind # "array" THEN TypeError
  ELSE IF \E i \in 1..Len(value.items) : value.items[i] = JsonNull THEN TypeError
  ELSE value.items

\* e.name || 'Unknown'
NormaliseNamed(e) == [name |-> IF e.name = "" THEN "Unknown" ELSE e.name]

\* r.source || '', r.target || ''
NormaliseRelationship(r) == [source |-> r.source, target |-> r.target]

\* .filter(r => r.source && r.target)
HasBothEnds(r) == r.source # "" /\ r.target # ""

EmptyResult == [entities |-> <<>>, concepts |-> <<>>, relationships |-> <<>>]

\* parseExtractionResponse: JSON.parse and the three maps are in one try
\* block, whose catch returns the empty result
ParseExtractionResponse(response) ==
  IF response.kind # "object" THEN EmptyResult
  ELSE LET entities == MapOrDefault(response.entities)
           concepts == MapOrDefault(response.concepts)
           relationships == MapOrDefault(response.relationships)
       IN  IF TypeError \in {entities, concepts, relationships} THEN EmptyResult
           ELSE [entities |-> [i \in 1..Len(entities) |-> NormaliseNamed(entities[i])],
                 concepts |-> [i \in 1..Len(concepts) |-> NormaliseNamed(concepts[i])],
                 relationships |->
                   SelectSeq([i \in 1..Len(relationships) |->
                                NormaliseRelationship(relationships[i])],
                             HasBothEnds)]

\* the values a field of the response may have
NamedFields ==
  { Undefined, JsonNull, JsonString, JsonArray(<<>>),
    JsonArray(<<[name |-> "n1"], [name |-> ""]>>),
    JsonArray(<<[name |-> "n1"], JsonNull>>) }

RelationshipFields ==
  { Undefined, JsonString,
    JsonArray(<<[source |-> "n1", target |-> "n2"], [source |-> "n1", target |-> ""]>>),
    JsonArray(<<JsonNull>>) }

Responses ==
  { [kind |-> "text"] } \cup
  { [kind |-> "object", entities |-> e, concepts |-> c, relationships |-> r] :
      e \in NamedFields, c \in NamedFields, r \in RelationshipFields }

(***************************************************************************)
(* graphManager (exporters/llmContext.ts): the graph store                 *)
(*                                                                         *)
(* A KnowledgeGraph is a record; the two Maps are functions from ids.      *)
(* Arrays that the code keeps duplicate-free and only tests for membership *)
(* (aliases, alternateTerms, domains, relatedEntities, relatedConcepts)    *)
(* are sets; occurrences, evolution, evidence and the relationship list    *)
(* are sequences.  Fields that are copied and never read by the graph      *)
(* operations (type, context, lastUpdated, relationship description) are   *)
(* left out.                                                               *)
(***************************************************************************)
INTEGRATION_INTERVAL == 10

\* createEmptyGraph
EmptyMap == [x \in {} |-> {}]

CreateEmptyGraph ==
  [entities |-> EmptyMap, concepts |-> EmptyMap, relationships |-> <<>>,
   metadata |-> [totalPostsProcessed |-> 0,
                 dateRange |-> [earliest |-> 0, latest |-> 0]]]

\* mergeArrays: [...new Set(arrays.flat())]
MergeArrays(a, b) == a \cup b

MapSet(m, k, v) == [x \in (DOMAIN m) \cup {k} |-> IF x = k THEN v ELSE m[x]]

MapDelete(m, k) == [x \in (DOMAIN m) \ {k} |-> m[x]]

Occurrence(post) == [postTitle |-> post.title, postDate |-> post.date]

\* "Update significance based on occurrence count" of applyExtraction
CountSignificance(n, old) ==
  IF n >= 5 THEN "major" ELSE IF n >= 2 THEN "moderate" ELSE old

\* one iteration of the entity loop of applyExtraction
EntityStep(ents, extracted, post) ==
  LET id == GenerateId(extracted.name) IN
  IF id \in DOMAIN ents
  THEN LET existing == ents[id]
           occ == Append(existing.occurrences, Occurrence(post))
           updated ==
             [existing EXCEPT
                !.occurrences = occ,
                !.aliases = MergeArrays(existing.aliases, extracted.aliases),
                !.description =
                  IF Len(extracted.description) > Len(existing.description)
                  THEN extracted.description ELSE existing.description,
                !.significance = CountSignificance(Len(occ), existing.significance)]
       IN  MapSet(ents, id, updated)
  ELSE MapSet(ents, id,
         [name |-> extracted.name,
          description |-> extracted.description,
          aliases |-> extracted.aliases,
          occurrences |-> <<Occurrence(post)>>,
          relatedEntities |-> {},
          relatedConcepts |-> {},
          firstSeen |-> post.title,
          significance |-> extracted.significance])

RECURSIVE EntityLoop(_, _, _)
EntityLoop(ents, list, post) ==
  IF list = <<>> THEN ents
  ELSE EntityLoop(EntityStep(ents, Head(list), post), Tail(list), post)

Evolution(post, note) ==
  [postTitle |-> post.title, postDate |-> post.date, note |-> note]

\* one iteration of the concept loop of applyExtraction
ConceptStep(cons, extracted, post) ==
  LET id == GenerateId(extracted.name) IN
  IF id \in DOMAIN cons
  THEN LET existing == cons[id]
           occ == Append(existing.occurrences, Occurrence(post))
           updated ==
             [existing EXCEPT
                !.occurrences = occ,
                !.domains = MergeArrays(existing.domains, extracted.domains),
                !.alternateTerms =
                  MergeArrays(existing.alternateTerms, extracted.alternateTerms),
                !.evolution =
                  IF extracted.evolutionNote # ""
                  THEN Append(existing.evolution,
                              Evolution(post, extracted.evolutionNote))
                  ELSE existing.evolution,
                !.description =
                  IF Len(extracted.description) > Len(existing.description)
                  THEN extracted.description ELSE existing.description,
                !.significance = CountSignificance(Len(occ), existing.significance)]
       IN  MapSet(cons, id, updated)
  ELSE MapSet(cons, id,
         [name |-> extracted.name,
          domains |-> extracted.domains,
          description |-> extracted.description,
          alternateTerms |-> extracted.alternateTerms,
          occurrences |-> <<Occurrence(post)>>,
          relatedConcepts |-> {},
          relatedEntities |-> {},
          evolution |-> IF extracted.evolutionNote # ""
                        THEN <<Evolution(post, extracted.evolutionNote)>>
                        ELSE <<>>,
          firstSeen |-> post.title,
          significance |-> "moderate"])

RECURSIVE ConceptLoop(_, _, _)
ConceptLoop(cons, list, post) ==
  IF list = <<>> THEN cons
  ELSE ConceptLoop(ConceptStep(cons, Head(list), post), Tail(list), post)

\* `${sourceId}-${type}-${targetId}`
RelKey(sourceId, type, targetId) ==
  sourceId \o <<"-">> \o type \o <<"-">> \o targetId

SameTriple(r, sourceId, type, targetId) ==
  r.sourceId = sourceId /\ r.targetId = targetId /\ r.type = type

\* relationships.find(...): the index of the first match, 0 if there is none
FindRel(rels, sourceId, type, targetId) ==
  LET hits == {i \in 1..Len(rels) : SameTriple(rels[i], sourceId, type, targetId)}
  IN  IF hits = {} THEN 0 ELSE CHOOSE i \in hits : \A j \in hits : i <= j

\* faulty variant of PushEvidence: pushes without the includes test
PushEvidenceAlways(evidence, title) == Append(evidence, title)

\* if (!evidence.includes(title)) evidence.push(title)
PushEvidence(evidence, title) ==
  IF \E i \in 1..Len(evidence) : evidence[i] = title
  THEN evidence ELSE Append(evidence, title)

AddRelated(m, id, field, other) ==
  IF field = "relatedEntities"
  THEN [m EXCEPT ![id].relatedEntities = @ \cup {other}]
  ELSE [m EXCEPT ![id].relatedConcepts = @ \cup {other}]

\* "Update related arrays in entities/concepts": the four ifs, in order;
\* which of them run is decided by the lookups made before the first
RelatedStep(g, sourceId, targetId) ==
  LET sE == sourceId \in DOMAIN g.entities
      sC == sourceId \in DOMAIN g.concepts
      tE == targetId \in DOMAIN g.entities
      tC == targetId \in DOMAIN g.concepts
      e1 == IF sE /\ tE
            THEN AddRelated(AddRelated(g.entities, sourceId, "relatedEntities", targetId),
                            targetId, "relatedEntities", sourceId)
            ELSE g.entities
      c1 == IF sC /\ tC
            THEN AddRelated(AddRelated(g.concepts, sourceId, "relatedConcepts", targetId),
                            targetId, "relatedConcepts", sourceId)
            ELSE g.concepts
      e2 == IF sE /\ tC THEN AddRelated(e1, sourceId, "relatedConcepts", targetId) ELSE e1
      c2 == IF sE /\ tC THEN AddRelated(c1, targetId, "relatedEntities", sourceId) ELSE c1
      c3 == IF sC /\ tE THEN AddRelated(c2, sourceId, "relatedEntities", targetId) ELSE c2
      e3 == IF sC /\ tE THEN AddRelated(e2, targetId, "relatedConcepts", sourceId) ELSE e2
  IN  [g EXCEPT !.entities = e3, !.concepts = c3]

\* one iteration of the relationship loop of applyExtraction
RelationshipStep(g, extracted, post) ==
  LET sourceId == GenerateId(extracted.source)
      targetId == GenerateId(extracted.target)
      i == FindRel(g.relationships, sourceId, extracted.type, targetId)
      rels ==
        IF i # 0
        THEN [g.relationships EXCEPT ![i].evidence = PushEvidence(@, post.title)]
        ELSE Append(g.relationships,
               [id |-> RelKey(sourceId, extracted.type, targetId),
                sourceId |-> sourceId,
                targetId |-> targetId,
                type |-> extracted.type,
                evidence |-> <<post.title>>])
  IN  RelatedStep([g EXCEPT !.relationships = rels], sourceId, targetId)

RECURSIVE RelationshipLoop(_, _, _)
RelationshipLoop(g, list, post) ==
  IF list = <<>> THEN g
  ELSE RelationshipLoop(RelationshipStep(g, Head(list), post), Tail(list), post)

\* faulty variant of UpdateMetadata: the latest bound is compared the wrong way round
UpdateMetadataLatestReversed(md, post) ==
  [totalPostsProcessed |-> md.totalPostsProcessed + 1,
   dateRange |->
     [earliest |-> IF md.dateRange.earliest = 0 \/ post.date < md.dateRange.earliest
                   THEN post.date ELSE md.dateRange.earliest,
      latest |-> IF md.dateRange.latest = 0 \/ post.date < md.dateRange.latest
                 THEN post.date ELSE md.dateRange.latest]]

\* "Update metadata" of applyExtraction; !'' is date = 0
UpdateMetadata(md, post) ==
  [totalPostsProcessed |-> md.totalPostsProcessed + 1,
   dateRange |->
     [earliest |-> IF md.dateRange.earliest = 0 \/ post.date < md.dateRange.earliest
                   THEN post.date ELSE md.dateRange.earliest,
      latest |-> IF md.dateRange.latest = 0 \/ post.date > md.dateRange.latest
                 THEN post.date ELSE md.dateRange.latest]]

\* the graph that applyExtraction returns
ApplyExtraction(g, extraction, post) ==
  LET g1 == [g EXCEPT !.entities = EntityLoop(g.entities, extraction.entities, post),
                      !.concepts = ConceptLoop(g.concepts, extraction.concepts, post)]
      g2 == RelationshipLoop(g1, extraction.relationships, post)
  IN  [g2 EXCEPT !.metadata = UpdateMetadata(g.metadata, post)]

\* The object passed to applyExtraction, as its caller reads it after the
\* call.  { ...graph } copies the reference to metadata, new Map(...) and
\* [...relationships] copy the references to the items, and { ...existing }
\* copies the references to an item's arrays: the counters, the evidence
\* arrays and the related arrays the call writes to are the caller's own.
\* The maps, the relationship array and the rebuilt fields are copies.
GivenGraphAfter(g, extraction, post) ==
  LET out == ApplyExtraction(g, extraction, post)
      Shared(given, returned) ==
        [id \in DOMAIN given |->
           [given[id] EXCEPT !.relatedEntities = returned[id].relatedEntities,
                             !.relatedConcepts = returned[id].relatedConcepts]]
  IN  [entities |-> Shared(g.entities, out.entities),
       concepts |-> Shared(g.concepts, out.concepts),
       relationships |->
         [i \in 1..Len(g.relationships) |->
            [g.relationships[i] EXCEPT !.evidence = out.relationships[i].evidence]],
       metadata |-> out.metadata]

(***************************************************************************)
(* graphManager: the consolidation engine (applyIntegration)               *)
(***************************************************************************)
\* "Update relationships to point to kept entity"
RewriteRels(rels, mergeId, keepId) ==
  [i \in 1..Len(rels) |->
     [rels[i] EXCEPT
        !.sourceId = IF @ = mergeId THEN keepId ELSE @,
        !.targetId = IF @ = mergeId THEN keepId ELSE @]]

\* "Update significance" of a merge
MergeSignificance(n, old) == IF n >= 5 THEN "major" ELSE old

\* faulty variant of MergeEntities: the absorbed entity's own name is not added to the aliases
MergeEntitiesNameDropped(g, m) ==
  IF m.keep \in DOMAIN g.entities /\ m.merge \in DOMAIN g.entities
  THEN LET keepEntity == g.entities[m.keep]
           mergeEntity == g.entities[m.merge]
           kept ==
             [keepEntity EXCEPT
                !.occurrences = keepEntity.occurrences \o mergeEntity.occurrences,
                !.aliases = MergeArrays(keepEntity.aliases, mergeEntity.aliases)]
       IN  [g EXCEPT
              !.entities = MapDelete(MapSet(g.entities, m.keep, kept), m.merge),
              !.relationships = RewriteRels(g.relationships, m.merge, m.keep)]
  ELSE g

\* if (keepEntity && mergeEntity) { ... }
MergeEntities(g, m) ==
  IF m.keep \in DOMAIN g.entities /\ m.merge \in DOMAIN g.entities
  THEN LET keepEntity == g.entities[m.keep]
           mergeEntity == g.entities[m.merge]
           occ == keepEntity.occurrences \o mergeEntity.occurrences
           kept ==
             [keepEntity EXCEPT
                !.occurrences = occ,
                !.aliases = MergeArrays(MergeArrays(keepEntity.aliases, mergeEntity.aliases),
                                        {mergeEntity.name}),
                !.relatedEntities =
                  MergeArrays(keepEntity.relatedEntities, mergeEntity.relatedEntities),
                !.relatedConcepts =
                  MergeArrays(keepEntity.relatedConcepts, mergeEntity.relatedConcepts),
                !.significance = MergeSignificance(Len(occ), keepEntity.significance)]
       IN  [g EXCEPT
              !.entities = MapDelete(MapSet(g.entities, m.keep, kept), m.merge),
              !.relationships = RewriteRels(g.relationships, m.merge, m.keep)]
  ELSE g

\* if (keepConcept && mergeConcept) { ... }; the lookups were made before the
\* entity block ran, on the concept map, which that block does not change
MergeConcepts(g, m) ==
  IF m.keep \in DOMAIN g.concepts /\ m.merge \in DOMAIN g.concepts
  THEN LET keepConcept == g.concepts[m.keep]
           mergeConcept == g.concepts[m.merge]
           occ == keepConcept.occurrences \o mergeConcept.occurrences
           kept ==
             [keepConcept EXCEPT
                !.occurrences = occ,
                !.alternateTerms =
                  MergeArrays(MergeArrays(keepConcept.alternateTerms,
                                          mergeConcept.alternateTerms),
                              {mergeConcept.name}),
                !.domains = MergeArrays(keepConcept.domains, mergeConcept.domains),
                !.evolution = keepConcept.evolution \o mergeConcept.evolution,
                !.relatedConcepts =
                  MergeArrays(keepConcept.relatedConcepts, mergeConcept.relatedConcepts),
                !.relatedEntities =
                  MergeArrays(keepConcept.relatedEntities, mergeConcept.relatedEntities),
                !.significance = MergeSignificance(Len(occ), keepConcept.significance)]
       IN  [g EXCEPT
              !.concepts = MapDelete(MapSet(g.concepts, m.keep, kept), m.merge),
              !.relationships = RewriteRels(g.relationships, m.merge, m.keep)]
  ELSE g

\* one iteration of "Process merges"
MergeStep(g, m) == MergeConcepts(MergeEntities(g, m), m)

RECURSIVE MergeLoop(_, _)
MergeLoop(g, merges) ==
  IF merges = <<>> THEN g ELSE MergeLoop(MergeStep(g, Head(merges)), Tail(merges))

\* one iteration of "Add new relationships"
NewRelationshipStep(rels, newRel) ==
  LET sourceId == GenerateId(newRel.source)
      targetId == GenerateId(newRel.target)
  IN  IF FindRel(rels, sourceId, newRel.type, targetId) # 0
      THEN rels
      ELSE Append(rels,
             [id |-> RelKey(sourceId, newRel.type, targetId),
              sourceId |-> sourceId,
              targetId |-> targetId,
              type |-> newRel.type,
              evidence |-> <<newRel.evidenceQuote>>])

RECURSIVE NewRelationshipLoop(_, _)
NewRelationshipLoop(rels, list) ==
  IF list = <<>> THEN rels
  ELSE NewRelationshipLoop(NewRelationshipStep(rels, Head(list)), Tail(list))

SetIfPresent(m, id, field, value) ==
  IF id \notin DOMAIN m THEN m
  ELSE IF field = "significance" THEN [m EXCEPT ![id].significance = value]
  ELSE [m EXCEPT ![id].description = value]

\* "Update significance ratings" and "Update descriptions"
RECURSIVE SignificanceLoop(_, _)
SignificanceLoop(g, list) ==
  IF list = <<>> THEN g
  ELSE LET u == Head(list) IN
       SignificanceLoop(
         [g EXCEPT
            !.entities = SetIfPresent(@, u.id, "significance", u.newSignificance),
            !.concepts = SetIfPresent(@, u.id, "significance", u.newSignificance)],
         Tail(list))

RECURSIVE DescriptionLoop(_, _)
DescriptionLoop(g, list) ==
  IF list = <<>> THEN g
  ELSE LET u == Head(list) IN
       DescriptionLoop(
         [g EXCEPT
            !.entities = SetIfPresent(@, u.id, "description", u.newDescription),
            !.concepts = SetIfPresent(@, u.id, "description", u.newDescription)],
         Tail(list))

\* mergeArrays on two evidence arrays: the first, then what is new in the second
RECURSIVE MergeEvidence(_, _)
MergeEvidence(a, b) ==
  IF b = <<>> THEN a ELSE MergeEvidence(PushEvidence(a, Head(b)), Tail(b))

\* "Remove duplicate relationships": uniqueRels keeps the first relationship
\* of each key, in insertion order, and merges the evidence of the later ones
RECURSIVE DedupRels(_, _)
DedupRels(unique, rels) ==
  IF rels = <<>> THEN unique
  ELSE LET rel == Head(rels)
           key == RelKey(rel.sourceId, rel.type, rel.targetId)
           hits == {i \in 1..Len(unique) :
                      RelKey(unique[i].sourceId, unique[i].type, unique[i].targetId) = key}
       IN  IF hits = {}
           THEN DedupRels(Append(unique, rel), Tail(rels))
           ELSE LET i == CHOOSE i \in hits : TRUE IN
                DedupRels([unique EXCEPT ![i].evidence = MergeEvidence(@, rel.evidence)],
                          Tail(rels))

\* the graph that applyIntegration returns
ApplyIntegration(g, integration) ==
  LET g1 == MergeLoop(g, integration.merges)
      g2 == [g1 EXCEPT
               !.relationships = NewRelationshipLoop(@, integration.newRelationships)]
      g3 == SignificanceLoop(g2, integration.updatedSignificance)
      g4 == DescriptionLoop(g3, integration.descriptionUpdates)
  IN  [g4 EXCEPT !.relationships = DedupRels(<<>>, @)]

(***************************************************************************)
(* Inputs of the graph operations: what the Extraction Client and the      *)
(* Integration Verifier may return, and the posts they are applied for.    *)
(***************************************************************************)
NmA == <<"A">>
NmA2 == <<"a", "!">>
NmB == <<"b">>
NmC == <<"c">>
IdA == <<"a">>
IdB == <<"b">>
IdC == <<"c">>
Cites == <<"c", "i", "t", "e", "s">>
Related == <<"r", "e", "l", "a", "t", "e", "d">>

EntA == [name |-> NmA, description |-> "x", aliases |-> {}, significance |-> "major"]
EntA2 == [name |-> NmA2, description |-> "yy", aliases |-> {NmA2}, significance |-> "minor"]
EntB == [name |-> NmB, description |-> "z", aliases |-> {NmC}, significance |-> "minor"]
ConC == [name |-> NmC, domains |-> {"d1"}, description |-> "x",
         alternateTerms |-> {}, evolutionNote |-> ""]
ConA == [name |-> NmA, domains |-> {"d2"}, description |-> "yy",
         alternateTerms |-> {NmA2}, evolutionNote |-> "n"]
RelAB == [source |-> NmA, target |-> NmB, type |-> Cites]
RelBC == [source |-> NmB, target |-> NmC, type |-> Cites]
RelAA == [source |-> NmA, target |-> NmA2, type |-> Related]

EmptyExtraction == [entities |-> <<>>, concepts |-> <<>>, relationships |-> <<>>]

Extractions ==
  { [entities |-> <<EntA>>, concepts |-> <<>>, relationships |-> <<RelAB>>],
    [entities |-> <<EntA2, EntB>>, concepts |-> <<ConC>>,
     relationships |-> <<RelAB, RelBC>>],
    [entities |-> <<EntA, EntA2>>, concepts |-> <<ConA>>,
     relationships |-> <<RelAA>>],
    [entities |-> <<EntB>>, concepts |-> <<ConC, ConA>>,
     relationships |-> <<RelBC, RelBC>>],
    EmptyExtraction }

\* two posts share a title; one has no date
GraphPosts ==
  { [title |-> "t1", date |-> 2], [title |-> "t2", date |-> 1],
    [title |-> "t1", date |-> 3], [title |-> "t3", date |-> 0] }

Integration(merges, newRels, sig, desc) ==
  [merges |-> merges, newRelationships |-> newRels,
   updatedSignificance |-> sig, descriptionUpdates |-> desc]

Integrations ==
  { Integration(<<[keep |-> IdA, merge |-> IdB]>>, <<>>, <<>>, <<>>),
    Integration(<<[keep |-> IdA, merge |-> IdB]>>,
                <<[source |-> NmB, target |-> NmC, type |-> Cites,
                   evidenceQuote |-> "q"]>>, <<>>, <<>>),
    Integration(<<[keep |-> IdC, merge |-> IdA], [keep |-> IdB, merge |-> IdA]>>,
                <<>>, <<[id |-> IdB, newSignificance |-> "minor"]>>,
                <<[id |-> IdC, newDescription |-> "w"]>>),
    Integration(<<[keep |-> IdA, merge |-> IdA]>>, <<>>, <<>>, <<>>),
    Integration(<<[keep |-> IdB, merge |-> IdA], [keep |-> IdC, merge |-> IdB]>>,
                <<[source |-> NmA, target |-> NmC, type |-> Cites,
                   evidenceQuote |-> "t1"]>>, <<>>, <<>>) }

\* bounds of the graph machine
MaxApply == 3
MaxIntegrate == 1

(***************************************************************************)
(* index.ts: the processing pipeline                                       *)
(*                                                                         *)
(* JavaScript runs each handler, and each continuation of an await, to     *)
(* its next await or return without interruption: these are the actions.   *)
(* The handlers are the functions bound to the buttons; nothing in them    *)
(* tests the status before acting, so they may be invoked in any state.    *)
(***************************************************************************)
\* bounds of the pipeline machine: the documents of the archive, the
\* processQueue calls that may be active together, the clicks on Pause, Stop
\* and Resume
NumPosts == 10
MaxLoops == 2
MaxSignals == 4

\* literals of processQueue
RecentNeeded == 10
SaveEvery == 5

\* state.posts[i]: sorted by date, titles all different
PostTitle(i) == "post" \o ToString(i)

PipePost(i) == [title |-> PostTitle(i), date |-> i + 1]

\* the external model: its answers are a fixed function of the post
ExtractFromPost(i) ==
  IF i % 2 = 0
  THEN [entities |-> <<EntA>>, concepts |-> <<>>, relationships |-> <<RelAB>>]
  ELSE [entities |-> <<EntB>>, concepts |-> <<ConC>>, relationships |-> <<RelBC>>]

\* the posts whose extraction call may fail after its retries
FailingPosts == {4, NumPosts - 1, NumPosts + 2}

\* the user clicks while one of these documents is the current one (the
\* last is the one after which the integration call is made), or while no
\* processQueue call is waiting
ClickDuring == {3, 7, INTEGRATION_INTERVAL - 1}

RunIntegrationVerification(g, recentPostTitles) ==
  Integration(<<[keep |-> IdA, merge |-> IdB]>>, <<>>, <<>>, <<>>)

\* let state: ProcessingState | null = null
Null == [isNull |-> TRUE]

\* createProcessingState; state.posts is PipePost throughout
CreateProcessingState ==
  [status |-> "idle", currentPostIndex |-> 0, totalPosts |-> NumPosts,
   graph |-> CreateEmptyGraph, errors |-> <<>>]

ShouldRunIntegration(postIndex) == (postIndex + 1) % INTEGRATION_INTERVAL = 0

\* Object.fromEntries(map) and new Map(Object.entries(object))
ToEntries(m) == {<<k, m[k]>> : k \in DOMAIN m}

FromEntries(entries) ==
  [k \in {e[1] : e \in entries} |-> (CHOOSE e \in entries : e[1] = k)[2]]

\* localStorage.getItem(STORAGE_KEY) when nothing is stored
NoItem == [kind |-> "none"]

\* the item saveStateToStorage stores (the writes are taken to succeed)
SaveStateToStorage(st) ==
  [kind |-> "json",
   status |-> st.status,
   currentPostIndex |-> st.currentPostIndex,
   totalPosts |-> st.totalPosts,
   errors |-> st.errors,
   graph |-> [entities |-> ToEntries(st.graph.entities),
              concepts |-> ToEntries(st.graph.concepts),
              relationships |-> st.graph.relationships,
              metadata |-> st.graph.metadata]]

\* stored values that saveStateToStorage did not write: text that is not
\* JSON, and a JSON object that has no graph
Garbage == [kind |-> "garbage"]

NoGraph == [kind |-> "nograph"]

\* an exception leaving a function
Threw == [threw |-> TRUE]

\* JSON.parse(saved)
JsonParse(item) == IF item.kind = "garbage" THEN Threw ELSE item

\* the body of the try block of loadStateFromStorage after JSON.parse:
\* parsed.graph.entities throws when parsed.graph is undefined
RebuildState(parsed) ==
  IF parsed.kind = "nograph" THEN Threw
  ELSE [status |-> parsed.status,
        currentPostIndex |-> parsed.currentPostIndex,
        totalPosts |-> parsed.totalPosts,
        errors |-> parsed.errors,
        graph |-> [entities |-> FromEntries(parsed.graph.entities),
                   concepts |-> FromEntries(parsed.graph.concepts),
                   relationships |-> parsed.graph.relationships,
                   metadata |-> parsed.graph.metadata]]

\* faulty variant of LoadStateFromStorage: no try/catch
LoadStateFromStorageUncaught(item) ==
  IF item.kind = "none" THEN Null
  ELSE IF JsonParse(item) = Threw THEN Threw
  ELSE RebuildState(JsonParse(item))

\* loadStateFromStorage: whatever the try block throws is caught
LoadStateFromStorage(item) ==
  IF item.kind = "none" THEN Null
  ELSE IF JsonParse(item) = Threw THEN Null
  ELSE IF RebuildState(JsonParse(item)) = Threw THEN Null
  ELSE RebuildState(JsonParse(item))

\* a processQueue call that has returned, or a slot never used
NoLoop == [pc |-> "none", post |-> 0, recentPosts |-> <<>>]

\* faulty variant of LoopHead: completes without clearSavedState
LoopHeadKeepsCheckpoint(st, item, recent, paused, stop) ==
  IF st.currentPostIndex < st.totalPosts /\ ~stop
  THEN IF paused
       THEN [state |-> st, storage |-> SaveStateToStorage(st), loop |-> NoLoop]
       ELSE [state |-> st, storage |-> item,
             loop |-> [pc |-> "extract", post |-> st.currentPostIndex,
                       recentPosts |-> recent]]
  ELSE IF ~stop
       THEN [state |-> [st EXCEPT !.status = "complete"], storage |-> item,
             loop |-> NoLoop]
       ELSE [state |-> st, storage |-> item, loop |-> NoLoop]

\* processQueue from the test of its while loop to the next await or return:
\* the new state and stored item, and where the call now waits
LoopHead(st, item, recent, paused, stop) ==
  IF st.currentPostIndex < st.totalPosts /\ ~stop
  THEN IF paused
       THEN [state |-> st, storage |-> SaveStateToStorage(st), loop |-> NoLoop]
       ELSE [state |-> st, storage |-> item,
             loop |-> [pc |-> "extract", post |-> st.currentPostIndex,
                       recentPosts |-> recent]]
  ELSE IF ~stop
       THEN [state |-> [st EXCEPT !.status = "complete"], storage |-> NoItem,
             loop |-> NoLoop]
       ELSE [state |-> st, storage |-> item, loop |-> NoLoop]

\* state.currentPostIndex++ and "Save progress periodically", then the loop test
AdvanceAndSave(st, item, recent, paused, stop) ==
  LET st1 == [st EXCEPT !.currentPostIndex = @ + 1]
      item1 == IF st1.currentPostIndex % SaveEvery = 0
               THEN SaveStateToStorage(st1) ELSE item
  IN  LoopHead(st1, item1, recent, paused, stop)

\* faulty variant of CatchError: the failure ends the processQueue call
CatchErrorHalts(st, item, recent, paused, stop, post, message) ==
  [state |-> [st EXCEPT
                !.errors = Append(@, [postTitle |-> PostTitle(post), error |-> message]),
                !.currentPostIndex = @ + 1],
   storage |-> item, loop |-> NoLoop]

\* the catch block of processQueue, then the loop test
CatchError(st, item, recent, paused, stop, post, message) ==
  LET st1 == [st EXCEPT
                !.errors = Append(@, [postTitle |-> PostTitle(post), error |-> message]),
                !.currentPostIndex = @ + 1]
  IN  LoopHead(st1, item, recent, paused, stop)

\* recentPosts.slice(-10)
LastTitles(recent) ==
  SubSeq(recent, IF Len(recent) > RecentNeeded THEN Len(recent) - RecentNeeded + 1 ELSE 1,
         Len(recent))

(***************************************************************************)
(* State                                                                   *)
(***************************************************************************)
VARIABLES
  graph,      \* graph machine: the KnowledgeGraph held by the caller
  nApply,     \* graph machine: applyExtraction calls made
  nIntegrate, \* graph machine: applyIntegration calls made
  proposals,  \* history: <<sourceId, type, targetId, title>> proposed so far
  dates,      \* history: dates of the posts applied so far
  lastCall,   \* history: the latest call, with the graph it was given
  state,      \* index.ts: let state
  isPaused,   \* index.ts: let isPaused
  shouldStop, \* index.ts: let shouldStop
  storage,    \* localStorage[STORAGE_KEY]
  loops,      \* the processQueue calls: where each waits, its post, its recentPosts
  startTask,  \* startProcessing: "enabled", "validating" (button disabled), "started"
  resumeTask, \* resumeProcessing: idle, or waiting for validateApiKey with savedState
  nFailures,  \* external calls that have failed
  hist        \* history of the signals given and what they did

graphVars == <<graph, nApply, nIntegrate, proposals, dates, lastCall>>

pipeVars ==
  <<state, isPaused, shouldStop, storage, loops, startTask, resumeTask, nFailures, hist>>

vars == <<graphVars, pipeVars>>

NoCall == [op |-> "none"]

NoResume == [pc |-> "idle"]

\* signals: the clicks so far.  run: "fresh" until the first signal;
\* "pausing" after a pause as the first signal; "paused" once the loop has
\* saved the checkpoint at pausedAt and returned; "resumed" after a resume
\* click that found it so; "other" after anything else.
\* validation: what the latest validateApiKey answered, and to which handler.
\* resumeSaw: the latest Resume click and the kind of item it found stored.
\* extracted: the titles of the documents extracted, in order;
\* sinceIntegration: how many of them since the latest integration call.
\* integrations: the integration calls, each with the index and the titles.
\* from: currentPostIndex of the state when it was created or loaded;
\* handed: the documents passed to extractFromPost since then, in order.
NoHist ==
  [signals |-> 0, run |-> "fresh", pausedAt |-> -1, integrations |-> <<>>,
   validation |-> "none", resumeSaw |-> [at |-> 0, kind |-> "none"],
   extracted |-> <<>>, sinceIntegration |-> 0, from |-> 0, handed |-> <<>>]

GraphIdle ==
  /\ graph = CreateEmptyGraph
  /\ nApply = 0
  /\ nIntegrate = 0
  /\ proposals = {}
  /\ dates = {}
  /\ lastCall = NoCall

\* the page as loaded
PipeIdle ==
  /\ state = Null
  /\ isPaused = FALSE
  /\ shouldStop = FALSE
  /\ storage = NoItem
  /\ loops = [l \in 1..MaxLoops |-> NoLoop]
  /\ startTask = "enabled"
  /\ resumeTask = NoResume
  /\ nFailures = 0
  /\ hist = NoHist

GraphInit == GraphIdle /\ PipeIdle

Proposed(extraction, post) ==
  {<<GenerateId(extraction.relationships[i].source),
     extraction.relationships[i].type,
     GenerateId(extraction.relationships[i].target),
     post.title>> : i \in 1..Len(extraction.relationships)}

\* state.graph = applyExtraction(state.graph, extraction, post)
CallApplyExtraction(extraction, post) ==
  /\ nApply < MaxApply
  /\ graph' = ApplyExtraction(graph, extraction, post)
  /\ nApply' = nApply + 1
  /\ proposals' = proposals \cup Proposed(extraction, post)
  /\ dates' = dates \cup {post.date}
  /\ lastCall' = [op |-> "applyExtraction", pre |-> graph,
                  extraction |-> extraction, post |-> post,
                  given |-> GivenGraphAfter(graph, extraction, post)]
  /\ UNCHANGED <<nIntegrate, pipeVars>>

\* state.graph = applyIntegration(state.graph, integration)
CallApplyIntegration(integration) ==
  /\ nIntegrate < MaxIntegrate
  /\ graph' = ApplyIntegration(graph, integration)
  /\ nIntegrate' = nIntegrate + 1
  /\ lastCall' = [op |-> "applyIntegration", pre |-> graph,
                  integration |-> integration]
  /\ UNCHANGED <<nApply, proposals, dates, pipeVars>>

ExtractNext ==
  \E extraction \in Extractions, post \in GraphPosts :
    CallApplyExtraction(extraction, post)

\* the posts of the runs that also consolidate: two titles, two dates
ConsolidationPosts == {post \in GraphPosts : post.date \in {1, 2}}

GraphNext ==
  \/ \E extraction \in Extractions \ {EmptyExtraction}, post \in ConsolidationPosts :
       CallApplyExtraction(extraction, post)
  \/ \E integration \in Integrations : CallApplyIntegration(integration)

\* extractions of two documents that describe the same entity in different
\* words of the same length
EntA3 == [name |-> NmA, description |-> "w", aliases |-> {NmB}, significance |-> "moderate"]

OrderExtractions ==
  Extractions \cup
    { [entities |-> <<EntA3>>, concepts |-> <<ConC>>, relationships |-> <<>>] }

OrderNext ==
  \E extraction \in OrderExtractions, post \in ConsolidationPosts :
    CallApplyExtraction(extraction, post)

\* applyExtraction calls on documents that may disagree
SpecOrder == GraphInit /\ [][OrderNext]_vars

\* await extractFromPost(post, graph), its attempts ending as in outcomes
CallExtractFromPost(outcomes) ==
  /\ lastCall' = [op |-> "extractFromPost", outcomes |-> outcomes,
                  result |-> ExtractFromPostAttempts(outcomes)]
  /\ UNCHANGED <<graph, nApply, nIntegrate, proposals, dates, pipeVars>>

RetryNext == \E outcomes \in OutcomeLists : CallExtractFromPost(outcomes)

\* extractFromPost calls alone
SpecRetry == GraphInit /\ [][RetryNext]_vars

\* names for generateId: every string of up to three of these characters,
\* and two names longer than the id may be
NameChars == {"a", "B", "1", "-", " ", "!"}

LongNameLen == MaxIdLen + 1

ShortNames ==
  {<<>>} \cup [1..1 -> NameChars] \cup [1..2 -> NameChars] \cup [1..3 -> NameChars]

LongNames ==
  { [i \in 1..LongNameLen |-> "a"],
    [i \in 1..LongNameLen |-> IF i = MaxIdLen THEN " " ELSE "a"] }

\* generateId(name)
CallGenerateId(name) ==
  /\ lastCall' = [op |-> "generateId", name |-> name, result |-> GenerateId(name)]
  /\ UNCHANGED <<graph, nApply, nIntegrate, proposals, dates, pipeVars>>

IdNext == \E name \in ShortNames \cup LongNames : CallGenerateId(name)

\* generateId calls alone
SpecId == GraphInit /\ [][IdNext]_vars

\* parseExtractionResponse(text)
CallParseExtractionResponse(response) ==
  /\ lastCall' = [op |-> "parseExtractionResponse", response |-> response,
                  result |-> ParseExtractionResponse(response)]
  /\ UNCHANGED <<graph, nApply, nIntegrate, proposals, dates, pipeVars>>

ParseNext == \E response \in Responses : CallParseExtractionResponse(response)

\* parseExtractionResponse calls alone
SpecParse == GraphInit /\ [][ParseNext]_vars

\* applyExtraction calls alone
SpecExtract == GraphInit /\ [][ExtractNext]_vars

\* applyExtraction and applyIntegration calls
SpecGraph == GraphInit /\ [][GraphNext]_vars

(***************************************************************************)
(* The handlers of index.ts and the continuations of their awaits          *)
(***************************************************************************)
Signal(h, run) == [h EXCEPT !.signals = @ + 1, !.run = run]

FreeSlots == {l \in 1..MaxLoops : loops[l].pc = "none"}

\* no handler is waiting for an external call
Quiet ==
  /\ FreeSlots = 1..MaxLoops
  /\ startTask # "validating"
  /\ resumeTask = NoResume

\* a click on Pause, Stop or Resume is possible here
MayClick ==
  /\ hist.signals < MaxSignals
  /\ \/ Quiet
     \/ state # Null /\ state.currentPostIndex \in ClickDuring

\* a new processQueue call that ran to r: it takes a slot if it now waits
StartQueue(r) ==
  /\ state' = r.state
  /\ storage' = r.storage
  /\ IF r.loop.pc = "none"
     THEN loops' = loops
     ELSE /\ FreeSlots # {}
          /\ loops' = [loops EXCEPT
                         ![CHOOSE l \in FreeSlots : \A k \in FreeSlots : l <= k] = r.loop]

\* the processQueue call l went on to r
ContinueQueue(l, r) ==
  /\ state' = r.state
  /\ storage' = r.storage
  /\ loops' = [loops EXCEPT ![l] = r.loop]

\* history: the processQueue call that ran to r passed a document to
\* extractFromPost if it now waits for that call
Handed(handed, r) ==
  IF r.loop.pc = "extract" THEN Append(handed, r.loop.post) ELSE handed

\* history: the loop test found isPaused, saved the checkpoint and returned,
\* or went on to the next document
NotePause(h, r, paused, stop) ==
  IF paused /\ ~stop /\ r.state.currentPostIndex < r.state.totalPosts
  THEN [h EXCEPT !.run = IF @ = "pausing" THEN "paused" ELSE "other",
                 !.pausedAt = r.state.currentPostIndex]
  ELSE [h EXCEPT !.handed = Handed(@, r)]

\* startProcessing up to await validateApiKey (the button is disabled)
StartClick ==
  /\ startTask = "enabled"
  /\ startTask' = "validating"
  /\ UNCHANGED <<state, isPaused, shouldStop, storage, loops, resumeTask, nFailures,
                 hist, graphVars>>

\* startProcessing after validateApiKey and extractPostsFromZip, which found
\* n posts in the archive
StartOn(ok, n) ==
  /\ startTask = "validating"
  /\ LET r == LoopHead([CreateProcessingState EXCEPT !.totalPosts = n,
                                                      !.status = "processing"],
                        storage, <<>>, isPaused, shouldStop)
     IN  IF ok
         THEN /\ startTask' = "started"
              /\ StartQueue(r)
              /\ hist' = [hist EXCEPT !.validation = "start accepted",
                                      !.from = 0,
                                      !.handed = Handed(<<>>, r)]
         ELSE /\ startTask' = "enabled"
              /\ hist' = [hist EXCEPT !.validation = "start rejected"]
              /\ UNCHANGED <<state, storage, loops>>
  /\ UNCHANGED <<isPaused, shouldStop, resumeTask, nFailures, graphVars>>

\* the archive of the pipeline machine
StartContinue(ok) == StartOn(ok, NumPosts)

\* an archive of two integration intervals
LongPosts == 2 * NumPosts

StartLong(ok) == StartOn(ok, LongPosts)

\* resumeProcessing up to await validateApiKey; the banner that carries the
\* button is offered while nothing is running
ResumeClick ==
  /\ MayClick
  /\ Quiet
  /\ resumeTask = NoResume
  /\ hist' = [Signal(hist, IF hist.run = "paused" THEN "resumed" ELSE "other")
                EXCEPT !.resumeSaw = [at |-> hist.signals + 1, kind |-> storage.kind]]
  /\ resumeTask' =
       IF LoadStateFromStorage(storage) = Null THEN NoResume
       ELSE [pc |-> "validating", savedState |-> LoadStateFromStorage(storage)]
  /\ UNCHANGED <<state, isPaused, shouldStop, storage, loops, startTask, nFailures,
                 graphVars>>

\* faulty variant of ResumeContinue: resumes whatever validateApiKey answered
ResumeContinueUnchecked(valid) ==
  /\ resumeTask # NoResume
  /\ resumeTask' = NoResume
  /\ isPaused' = FALSE
  /\ shouldStop' = FALSE
  /\ LET r == LoopHead([resumeTask.savedState EXCEPT !.status = "processing"],
                        storage, <<>>, FALSE, FALSE)
     IN  /\ StartQueue(r)
         /\ hist' = [hist EXCEPT !.validation = IF valid THEN "resume accepted"
                                                ELSE "resume rejected",
                                 !.from = resumeTask.savedState.currentPostIndex,
                                 !.handed = Handed(<<>>, r)]
  /\ UNCHANGED <<startTask, nFailures, graphVars>>

\* resumeProcessing after validateApiKey
ResumeContinue(valid) ==
  /\ resumeTask # NoResume
  /\ resumeTask' = NoResume
  /\ LET r == LoopHead([resumeTask.savedState EXCEPT !.status = "processing"],
                        storage, <<>>, FALSE, FALSE)
     IN  IF valid
         THEN /\ isPaused' = FALSE
              /\ shouldStop' = FALSE
              /\ StartQueue(r)
              /\ hist' = [hist EXCEPT !.validation = "resume accepted",
                                      !.from = resumeTask.savedState.currentPostIndex,
                                      !.handed = Handed(<<>>, r)]
         ELSE /\ hist' = [hist EXCEPT !.validation = "resume rejected"]
              /\ UNCHANGED <<state, isPaused, shouldStop, storage, loops>>
  /\ UNCHANGED <<startTask, nFailures, graphVars>>

\* togglePause
TogglePause ==
  /\ MayClick
  /\ isPaused' = ~isPaused
  /\ IF isPaused /\ state # Null
     THEN LET r == LoopHead([state EXCEPT !.status = "processing"],
                            storage, <<>>, FALSE, shouldStop)
          IN  /\ StartQueue(r)
              /\ hist' = [Signal(hist, "other") EXCEPT !.handed = Handed(@, r)]
     ELSE /\ hist' = Signal(hist, IF hist.run = "fresh" /\ state # Null
                                  THEN "pausing" ELSE "other")
          /\ UNCHANGED <<state, storage, loops>>
  /\ UNCHANGED <<shouldStop, startTask, resumeTask, nFailures, graphVars>>

\* stopProcessing
StopProcessing ==
  /\ MayClick
  /\ shouldStop' = TRUE
  /\ hist' = Signal(hist, "other")
  /\ IF state # Null
     THEN /\ state' = [state EXCEPT !.status = "paused"]
          /\ storage' = SaveStateToStorage([state EXCEPT !.status = "paused"])
     ELSE UNCHANGED <<state, storage>>
  /\ UNCHANGED <<isPaused, loops, startTask, resumeTask, nFailures, graphVars>>

\* processQueue after await extractFromPost returned an extraction
ExtractionReturns(l) ==
  /\ loops[l].pc = "extract"
  /\ LET post == loops[l].post
         st1 == [state EXCEPT
                   !.graph = ApplyExtraction(@, ExtractFromPost(post), PipePost(post))]
         recent == Append(loops[l].recentPosts, PostTitle(post))
     IN  IF ShouldRunIntegration(st1.currentPostIndex) /\ Len(recent) >= RecentNeeded
         THEN /\ state' = st1
              /\ loops' = [loops EXCEPT ![l] = [pc |-> "integrate", post |-> post,
                                                recentPosts |-> recent]]
              /\ hist' = [hist EXCEPT
                            !.integrations =
                              Append(@, [index |-> st1.currentPostIndex,
                                         titles |-> LastTitles(recent)]),
                            !.extracted = Append(@, PostTitle(post)),
                            !.sinceIntegration = 0]
              /\ UNCHANGED storage
         ELSE LET r == AdvanceAndSave(st1, storage, recent, isPaused, shouldStop) IN
              /\ ContinueQueue(l, r)
              /\ hist' = [NotePause(hist, r, isPaused, shouldStop) EXCEPT
                            !.extracted = Append(@, PostTitle(post)),
                            !.sinceIntegration = @ + 1]
  /\ UNCHANGED <<isPaused, shouldStop, startTask, resumeTask, nFailures, graphVars>>

\* processQueue after await extractFromPost threw (its retries are used up)
ExtractionThrows(l) ==
  /\ loops[l].pc = "extract"
  /\ nFailures' = nFailures + 1
  /\ LET r == CatchError(state, storage, loops[l].recentPosts, isPaused, shouldStop,
                         loops[l].post, "extraction failed")
     IN  /\ ContinueQueue(l, r)
         /\ hist' = NotePause(hist, r, isPaused, shouldStop)
  /\ UNCHANGED <<isPaused, shouldStop, startTask, resumeTask, graphVars>>

\* processQueue after await runIntegrationVerification returned a result
IntegrationReturns(l) ==
  /\ loops[l].pc = "integrate"
  /\ LET st1 == [state EXCEPT
                   !.graph = ApplyIntegration(@,
                     RunIntegrationVerification(@, LastTitles(loops[l].recentPosts)))]
         r == AdvanceAndSave(st1, storage, loops[l].recentPosts, isPaused, shouldStop)
     IN  /\ ContinueQueue(l, r)
         /\ hist' = NotePause(hist, r, isPaused, shouldStop)
  /\ UNCHANGED <<isPaused, shouldStop, startTask, resumeTask, nFailures, graphVars>>

\* processQueue after await runIntegrationVerification threw
IntegrationFails(l) ==
  /\ loops[l].pc = "integrate"
  /\ nFailures' = nFailures + 1
  /\ LET r == CatchError(state, storage, loops[l].recentPosts, isPaused, shouldStop,
                         loops[l].post, "integration failed")
     IN  /\ ContinueQueue(l, r)
         /\ hist' = NotePause(hist, r, isPaused, shouldStop)
  /\ UNCHANGED <<isPaused, shouldStop, startTask, resumeTask, graphVars>>

\* the page was loaded with a value in localStorage that saveStateToStorage
\* did not write
StorageOverwritten ==
  /\ MayClick
  /\ Quiet
  /\ state = Null
  /\ hist' = Signal(hist, "other")
  /\ storage' \in {Garbage, NoGraph}
  /\ UNCHANGED <<state, isPaused, shouldStop, loops, startTask, resumeTask, nFailures,
                 graphVars>>

\* the failures of the pipeline machine are those of FailingPosts
ExtractionFails(l) ==
  /\ loops[l].post \in FailingPosts
  /\ ExtractionThrows(l)

PipeNext ==
  \/ StartClick
  \/ \E ok \in BOOLEAN : StartContinue(ok)
  \/ ResumeClick
  \/ \E valid \in BOOLEAN : ResumeContinue(valid)
  \/ TogglePause
  \/ StopProcessing
  \/ StorageOverwritten
  \/ \E l \in 1..MaxLoops : ExtractionReturns(l)
  \/ \E l \in 1..MaxLoops : ExtractionFails(l)
  \/ \E l \in 1..MaxLoops : IntegrationReturns(l)
  \/ \E l \in 1..MaxLoops : IntegrationFails(l)

\* the page, its buttons and the external calls
SpecPipe == GraphInit /\ [][PipeNext]_vars

\* a run in which Pause, Stop and Resume are never clicked and any external
\* call may fail
LiveNext ==
  \/ StartClick
  \/ \E ok \in BOOLEAN : StartContinue(ok)
  \/ \E l \in 1..MaxLoops : ExtractionReturns(l)
  \/ \E l \in 1..MaxLoops : ExtractionThrows(l)
  \/ \E l \in 1..MaxLoops : IntegrationReturns(l)
  \/ \E l \in 1..MaxLoops : IntegrationFails(l)

\* an uninterrupted run over the long archive
LongNext ==
  \/ StartClick
  \/ \E ok \in BOOLEAN : StartLong(ok)
  \/ \E l \in 1..MaxLoops : ExtractionReturns(l)
  \/ \E l \in 1..MaxLoops : ExtractionFails(l)
  \/ \E l \in 1..MaxLoops : IntegrationReturns(l)
  \/ \E l \in 1..MaxLoops : IntegrationFails(l)

SpecLong == GraphInit /\ [][LongNext]_vars

\* the external call a processQueue call awaits returns or throws
CallSettles ==
  \E l \in 1..MaxLoops :
    \/ ExtractionReturns(l)
    \/ ExtractionThrows(l)
    \/ IntegrationReturns(l)
    \/ IntegrationFails(l)

\* ENABLED <<CallSettles>>_vars: a processQueue call awaits an external call
Awaiting == \E l \in 1..MaxLoops : loops[l].pc # "none"

\* every awaited external call eventually settles: weak fairness of
\* CallSettles, with its enabling condition written out
SpecLive ==
  /\ GraphInit
  /\ [][LiveNext]_vars
  /\ ([]<>(~Awaiting) \/ []<><<CallSettles>>_vars)

(***************************************************************************)
(* Claims about the graph store and the consolidation engine               *)
(***************************************************************************)
Rank(sig) == CASE sig = "minor" -> 1 [] sig = "moderate" -> 2 [] sig = "major" -> 3

NotLowered(before, after) ==
  \A id \in DOMAIN before :
    id \in DOMAIN after /\ Rank(after[id].significance) >= Rank(before[id].significance)

\* C1: under applyExtraction calls alone, no call leaves an entity or concept
\* that existed before the call with a lower significance (minor < moderate <
\* major) than it had before the call.
C1_SignificanceNeverLowered ==
  lastCall.op = "applyExtraction" =>
    /\ NotLowered(lastCall.pre.entities, graph.entities)
    /\ NotLowered(lastCall.pre.concepts, graph.concepts)

Triples == {<<p[1], p[2], p[3]>> : p \in proposals}

TitlesOf(t) == {p[4] : p \in {q \in proposals : <<q[1], q[2], q[3]>> = t}}

RecordsOf(t) ==
  {i \in 1..Len(graph.relationships) : SameTriple(graph.relationships[i], t[1], t[2], t[3])}

\* C2: under applyExtraction calls alone, a triple proposed by documents with
\* k distinct titles has exactly one Relationship record, whose evidence has
\* exactly k entries; a triple nobody proposed has none.
C2_OneRecordPerTriple ==
  /\ \A t \in Triples :
       /\ Cardinality(RecordsOf(t)) = 1
       /\ \A i \in RecordsOf(t) :
            Len(graph.relationships[i].evidence) = Cardinality(TitlesOf(t))
  /\ \A i \in 1..Len(graph.relationships) :
       <<graph.relationships[i].sourceId, graph.relationships[i].type,
         graph.relationships[i].targetId>> \in Triples

\* a triple with two titles in evidence was proposed again by a post whose
\* title was already recorded
C2_Witness ==
  /\ lastCall.op = "applyExtraction"
  /\ \E i \in 1..Len(lastCall.pre.relationships) :
       LET r == lastCall.pre.relationships[i] IN
       /\ Len(r.evidence) = 2
       /\ <<r.sourceId, r.type, r.targetId, lastCall.post.title>>
            \in Proposed(lastCall.extraction, lastCall.post)
       /\ \E j \in 1..2 : r.evidence[j] = lastCall.post.title

\* the graph before and after the i-th merge instruction of the latest batch
BeforeMerge(i) == MergeLoop(lastCall.pre, SubSeq(lastCall.integration.merges, 1, i - 1))

AfterMerge(i) == MergeLoop(lastCall.pre, SubSeq(lastCall.integration.merges, 1, i))

AppliedTo(m, map) == m.keep \in DOMAIN map /\ m.merge \in DOMAIN map

References(rels, id) ==
  \E i \in 1..Len(rels) : rels[i].sourceId = id \/ rels[i].targetId = id

\* C3: after applyIntegration, no relationship of the resulting graph names
\* the absorbed id of a merge instruction that was applied, whatever else the
\* batch holds.  (Stated for instructions with keep # merge only.)
C3_NoReferenceToAbsorbed ==
  lastCall.op = "applyIntegration" =>
    \A i \in 1..Len(lastCall.integration.merges) :
      LET m == lastCall.integration.merges[i] IN
      (/\ m.keep # m.merge
       /\ \/ AppliedTo(m, BeforeMerge(i).entities)
          \/ AppliedTo(m, BeforeMerge(i).concepts))
        => ~References(graph.relationships, m.merge)

\* the graph after the i-th merge instruction; for the last instruction, as
\* it stands in the graph that applyIntegration returned
ResultOfMerge(i) ==
  IF i = Len(lastCall.integration.merges) THEN graph ELSE AfterMerge(i)

\* C4: a merge applied between two distinct existing entities removes the
\* absorbed id, leaves keep with its former occurrences followed by the
\* absorbed ones, and with the absorbed name and aliases among its aliases;
\* likewise for concepts, with alternateTerms, domains and evolution.
C4_MergeAbsorbs ==
  lastCall.op = "applyIntegration" =>
    \A i \in 1..Len(lastCall.integration.merges) :
      LET m == lastCall.integration.merges[i]
          b == BeforeMerge(i)
          a == ResultOfMerge(i)
      IN  m.keep # m.merge =>
            /\ AppliedTo(m, b.entities) =>
                 /\ m.merge \notin DOMAIN a.entities
                 /\ m.keep \in DOMAIN a.entities
                 /\ a.entities[m.keep].occurrences =
                      b.entities[m.keep].occurrences \o b.entities[m.merge].occurrences
                 /\ b.entities[m.merge].name \in a.entities[m.keep].aliases
                 /\ b.entities[m.merge].aliases \subseteq a.entities[m.keep].aliases
                 /\ b.entities[m.keep].aliases \subseteq a.entities[m.keep].aliases
            /\ AppliedTo(m, b.concepts) =>
                 /\ m.merge \notin DOMAIN a.concepts
                 /\ m.keep \in DOMAIN a.concepts
                 /\ a.concepts[m.keep].occurrences =
                      b.concepts[m.keep].occurrences \o b.concepts[m.merge].occurrences
                 /\ a.concepts[m.keep].evolution =
                      b.concepts[m.keep].evolution \o b.concepts[m.merge].evolution
                 /\ b.concepts[m.merge].name \in a.concepts[m.keep].alternateTerms
                 /\ b.concepts[m.merge].alternateTerms
                      \subseteq a.concepts[m.keep].alternateTerms
                 /\ b.concepts[m.merge].domains \cup b.concepts[m.keep].domains
                      \subseteq a.concepts[m.keep].domains

\* a batch merged two entities with 3 and 2 occurrences, and a batch merged
\* two concepts
C4_Witness ==
  /\ lastCall.op = "applyIntegration"
  /\ \E i \in 1..Len(lastCall.integration.merges) :
       LET m == lastCall.integration.merges[i]
           b == BeforeMerge(i)
       IN  /\ m.keep # m.merge
           /\ AppliedTo(m, b.entities)
           /\ Len(b.entities[m.keep].occurrences) = 3
           /\ Len(b.entities[m.merge].occurrences) = 2
           /\ \E j \in 1..Len(lastCall.integration.merges) :
                /\ lastCall.integration.merges[j].keep # lastCall.integration.merges[j].merge
                /\ AppliedTo(lastCall.integration.merges[j], BeforeMerge(j).concepts)

SetMin(S) == CHOOSE x \in S : \A y \in S : x <= y

SetMax(S) == CHOOSE x \in S : \A y \in S : x >= y

\* C5: when every post applied so far has a non-empty date, dateRange holds
\* the minimum and the maximum of those dates, and no applyExtraction call
\* raises earliest or lowers latest.
C5_DateRangeIsMinMax ==
  (dates # {} /\ 0 \notin dates) =>
    /\ graph.metadata.dateRange.earliest = SetMin(dates)
    /\ graph.metadata.dateRange.latest = SetMax(dates)
    /\ (lastCall.op = "applyExtraction" /\ lastCall.pre.metadata.totalPostsProcessed > 0) =>
         /\ graph.metadata.dateRange.earliest <= lastCall.pre.metadata.dateRange.earliest
         /\ graph.metadata.dateRange.latest >= lastCall.pre.metadata.dateRange.latest

\* three dated posts were applied, the latest first and the earliest second
C5_Witness ==
  /\ dates = {1, 2, 3}
  /\ lastCall.op = "applyExtraction"
  /\ lastCall.post.date = 2
  /\ lastCall.pre.metadata.dateRange.earliest = 1
  /\ lastCall.pre.metadata.dateRange.latest = 3
  /\ lastCall.pre.metadata.totalPostsProcessed = 2

(***************************************************************************)
(* Claims about the pipeline                                               *)
(***************************************************************************)
\* one processQueue call that is never interrupted and whose external calls
\* all succeed, from document i with the titles collected so far
RECURSIVE RunUninterrupted(_, _, _, _)
RunUninterrupted(g, i, recent, rounds) ==
  IF i >= NumPosts THEN [graph |-> g, integrations |-> rounds]
  ELSE LET g1 == ApplyExtraction(g, ExtractFromPost(i), PipePost(i))
           recent1 == Append(recent, PostTitle(i))
       IN  IF ShouldRunIntegration(i) /\ Len(recent1) >= RecentNeeded
           THEN RunUninterrupted(
                  ApplyIntegration(g1, RunIntegrationVerification(g1, LastTitles(recent1))),
                  i + 1, recent1,
                  Append(rounds, [index |-> i, titles |-> LastTitles(recent1)]))
           ELSE RunUninterrupted(g1, i + 1, recent1, rounds)

Uninterrupted == RunUninterrupted(CreateEmptyGraph, 0, <<>>, <<>>)

\* a list as the bag of its elements
BagOf(list) ==
  [x \in {list[i] : i \in 1..Len(list)} |->
     Cardinality({i \in 1..Len(list) : list[i] = x})]

IgnoreOccurrenceOrder(m) == [id \in DOMAIN m |-> [m[id] EXCEPT !.occurrences = BagOf(@)]]

EqualUpToOccurrenceOrder(g, h) ==
  /\ IgnoreOccurrenceOrder(g.entities) = IgnoreOccurrenceOrder(h.entities)
  /\ IgnoreOccurrenceOrder(g.concepts) = IgnoreOccurrenceOrder(h.concepts)
  /\ g.relationships = h.relationships
  /\ g.metadata = h.metadata

\* the run was paused once at 0 < k < n, its checkpoint was stored and
\* reloaded, it was resumed, and it has completed; no external call failed
PausedResumedAndComplete ==
  /\ state # Null
  /\ state.status = "complete"
  /\ hist.run = "resumed"
  /\ hist.pausedAt > 0
  /\ hist.pausedAt < NumPosts
  /\ nFailures = 0

\* C6: a run paused at k, persisted, reloaded and resumed ends with the graph
\* of the uninterrupted run (up to the order of occurrences) and has run the
\* same integration rounds
C6_PauseResumeEquivalence ==
  PausedResumedAndComplete =>
    /\ EqualUpToOccurrenceOrder(state.graph, Uninterrupted.graph)
    /\ hist.integrations = Uninterrupted.integrations

ActiveLoops == {l \in 1..MaxLoops : loops[l].pc # "none"}

\* an external call of processQueue call l has just failed
Failed(l) ==
  /\ nFailures' = nFailures + 1
  /\ loops[l].pc # "none"
  /\ loops'[l] # loops[l]

\* C7: a failed extraction or integration call for document i adds one entry
\* with the title of i to errors, advances the index by one, leaves the status
\* alone, and the loop goes on to document i+1 (when there is one and no
\* pause or stop is pending)
C7_FailureSkipsOneDocument ==
  [][\A l \in 1..MaxLoops :
       Failed(l) =>
         LET i == loops[l].post IN
         /\ Len(state'.errors) = Len(state.errors) + 1
         /\ SubSeq(state'.errors, 1, Len(state.errors)) = state.errors
         /\ state'.errors[Len(state'.errors)].postTitle = PostTitle(i)
         /\ state'.currentPostIndex = state.currentPostIndex + 1
         /\ (i + 1 < NumPosts /\ ~isPaused /\ ~shouldStop) =>
              /\ state'.status = state.status
              /\ loops'[l].pc = "extract"
              /\ loops'[l].post = i + 1]_vars

\* C8: at most one processQueue call is active, so at most one external call
\* is in flight
C8_OneLoopAtATime == Cardinality(ActiveLoops) <= 1

\* C9: once the status is complete it stays complete
C9_CompleteIsTerminal ==
  [][(state # Null /\ state.status = "complete") =>
       (state' # Null /\ state'.status = "complete")]_vars

\* C10: in every state whose status is complete no checkpoint is stored
C10_CompleteHasNoCheckpoint ==
  (state # Null /\ state.status = "complete") => storage = NoItem

\* a run whose checkpoint was stored and reloaded has completed
C10_Witness ==
  /\ state # Null
  /\ state.status = "complete"
  /\ state.currentPostIndex = NumPosts
  /\ hist.run = "resumed"
  /\ storage = NoItem

\* C11: with no pause or stop and every external call settling, a started
\* run reaches status complete with currentPostIndex = totalPosts, whatever
\* mix of calls fails
C11_EventuallyComplete ==
  (state # Null) ~>
    (state # Null /\ state.status = "complete"
       /\ state.currentPostIndex = state.totalPosts)

\* a run with both failed and successful documents has completed
C11_Witness ==
  /\ state # Null
  /\ state.status = "complete"
  /\ state.currentPostIndex = state.totalPosts
  /\ hist.signals = 0
  /\ Len(state.errors) > 1
  /\ Len(state.errors) < NumPosts

\* validateApiKey has just answered that the key is not valid
Rejected ==
  /\ hist'.validation \in {"start rejected", "resume rejected"}
  /\ startTask' # startTask \/ resumeTask' # resumeTask

\* C12: when credential validation fails on start or on resume, no
\* processQueue call begins (no extraction call), and the ProcessingState -
\* its status, graph and errors - is left as it was
C12_RejectedKeyStartsNothing ==
  [][Rejected =>
       /\ loops' = loops
       /\ state' = state
       /\ storage' = storage
       /\ nFailures' = nFailures]_vars

\* a resume of a paused run was refused: the run is still paused, its
\* checkpoint still stored, and nothing is running
C12_Witness ==
  /\ hist.validation = "resume rejected"
  /\ resumeTask = NoResume
  /\ state # Null
  /\ state.status = "paused"
  /\ storage # NoItem
  /\ ~Awaiting

\* this step is a click on Resume
ResumeClicked ==
  /\ hist'.signals = hist.signals + 1
  /\ hist'.resumeSaw.at = hist'.signals

\* C13: when nothing is stored, or the stored value is not JSON or has no
\* graph, loadStateFromStorage returns null (it does not throw), and a click
\* on Resume starts nothing and leaves the in-memory state as it was
C13_UnusableCheckpointIsNull ==
  [][(ResumeClicked /\ storage.kind # "json") =>
       /\ LoadStateFromStorage(storage) = Null
       /\ resumeTask' = NoResume
       /\ loops' = loops
       /\ state' = state]_vars

\* Resume was clicked on a stored value that is not a checkpoint
C13_Witness ==
  /\ hist.resumeSaw.at = hist.signals
  /\ hist.resumeSaw.kind \in {"garbage", "nograph"}
  /\ storage \in {Garbage, NoGraph}
  /\ resumeTask = NoResume
  /\ state = Null

\* in this step the extraction of the current document has returned
ExtractedOne == Len(hist'.extracted) = Len(hist.extracted) + 1

IntegrationCalled == Len(hist'.integrations) = Len(hist.integrations) + 1

\* the last n elements of a list
LastN(list, n) == SubSeq(list, IF Len(list) > n THEN Len(list) - n + 1 ELSE 1, Len(list))

\* C14: while document i is handled the integration verifier is called if
\* and only if (i + 1) mod 10 = 0 and at least 10 documents have been
\* extracted since the previous integration call (or since the beginning),
\* and the titles passed are those of the 10 most recently extracted
C14_IntegrationSchedule ==
  [][ExtractedOne =>
       LET i == state.currentPostIndex
           since == hist.sinceIntegration + 1
       IN  /\ IntegrationCalled <=>
                ((i + 1) % INTEGRATION_INTERVAL = 0 /\ since >= INTEGRATION_INTERVAL)
           /\ IntegrationCalled =>
                hist'.integrations[Len(hist'.integrations)].titles
                  = LastN(hist'.extracted, INTEGRATION_INTERVAL)]_vars

\* the same ids, and for each the same description, aliases or alternate
\* terms, and significance
SameItems(g, h) ==
  /\ DOMAIN g.entities = DOMAIN h.entities
  /\ DOMAIN g.concepts = DOMAIN h.concepts
  /\ \A id \in DOMAIN g.entities :
       /\ g.entities[id].description = h.entities[id].description
       /\ g.entities[id].aliases = h.entities[id].aliases
       /\ g.entities[id].significance = h.entities[id].significance
  /\ \A id \in DOMAIN g.concepts :
       /\ g.concepts[id].description = h.concepts[id].description
       /\ g.concepts[id].alternateTerms = h.concepts[id].alternateTerms
       /\ g.concepts[id].significance = h.concepts[id].significance

\* C15: applying the extractions of two different documents in either
\* order gives every entity and concept the same description, aliases or
\* alternate terms, and significance
C15_OrderIndependent ==
  lastCall.op = "applyExtraction" =>
    \A x \in OrderExtractions, d \in ConsolidationPosts :
      d # lastCall.post =>
        SameItems(ApplyExtraction(graph, x, d),
                  ApplyExtraction(ApplyExtraction(lastCall.pre, x, d),
                                  lastCall.extraction, lastCall.post))

\* C16: in every graph reached by applyExtraction and applyIntegration calls
\* the related-id sets are symmetric between any two items present
C16_RelatedSymmetric ==
  /\ \A a \in DOMAIN graph.entities, b \in DOMAIN graph.entities :
       b \in graph.entities[a].relatedEntities
         <=> a \in graph.entities[b].relatedEntities
  /\ \A a \in DOMAIN graph.entities, b \in DOMAIN graph.concepts :
       b \in graph.entities[a].relatedConcepts
         <=> a \in graph.concepts[b].relatedEntities
  /\ \A a \in DOMAIN graph.concepts, b \in DOMAIN graph.concepts :
       b \in graph.concepts[a].relatedConcepts
         <=> a \in graph.concepts[b].relatedConcepts

\* the attempts that answered
Answered(outcomes) == {i \in 1..Len(outcomes) : outcomes[i].ok}

\* C17: at most 3 attempts are made; the first that answers ends the
\* retries and its response is returned; the waits between attempts are
\* 2000 ms then 4000 ms, with none after the last failure; when all three
\* fail the last error is thrown
C17_ThreeAttemptsThenThrow ==
  lastCall.op = "extractFromPost" =>
    LET o == lastCall.outcomes
        r == lastCall.result
        waits == SubSeq(r.delays, 1, r.attempts - 1)
    IN  /\ r.attempts >= 1
        /\ r.attempts <= 3
        /\ \A i \in 1..(r.attempts - 1) : ~o[i].ok
        /\ waits = SubSeq(<<2000, 4000>>, 1, r.attempts - 1)
        /\ IF Answered(o) = {}
           THEN /\ r.attempts = 3
                /\ r.threw
                /\ r.value = o[3].error
                /\ r.delays = waits
           ELSE /\ o[r.attempts].ok
                /\ ~r.threw
                /\ r.value = o[r.attempts].value

\* all three attempts failed, each with a different error
C17_Witness ==
  /\ lastCall.op = "extractFromPost"
  /\ Answered(lastCall.outcomes) = {}
  /\ lastCall.outcomes[2].error # lastCall.outcomes[3].error
  /\ lastCall.result.threw
  /\ lastCall.result.delays = <<2000, 4000>>

IdChars ==
  {"a", "b", "c", "d", "e", "f", "g", "h", "i", "j", "k", "l", "m", "n", "o", "p",
   "q", "r", "s", "t", "u", "v", "w", "x", "y", "z",
   "0", "1", "2", "3", "4", "5", "6", "7", "8", "9", "-"}

\* C18: generateId returns a string of a-z, 0-9 and hyphen, of length at
\* most 100, with no two adjacent hyphens and no leading or trailing hyphen
C18_IdIsNormalised ==
  lastCall.op = "generateId" =>
    LET id == lastCall.result IN
    /\ \A i \in 1..Len(id) : id[i] \in IdChars
    /\ Len(id) <= 100
    /\ \A i \in 1..(Len(id) - 1) : ~(id[i] = "-" /\ id[i + 1] = "-")
    /\ id # <<>> => (id[1] # "-" /\ id[Len(id)] # "-")

\* an array all of whose elements are objects
WellFormed(value) ==
  value.kind = "array" /\ \A i \in 1..Len(value.items) : value.items[i] # JsonNull

\* present, but not an array or with a null element
Malformed(value) ==
  \/ value.kind = "string"
  \/ value.kind = "array" /\ \E i \in 1..Len(value.items) : value.items[i] = JsonNull

\* C19: when one field of a JSON response is malformed and the others are
\* well-formed, the result keeps the items of the well-formed fields and
\* only the malformed field is replaced by its default
C19_MalformedFieldAlone ==
  (lastCall.op = "parseExtractionResponse" /\ lastCall.response.kind = "object") =>
    LET in == lastCall.response
        out == lastCall.result
    IN  /\ (Malformed(in.entities) /\ WellFormed(in.concepts)
              /\ WellFormed(in.relationships)) =>
             /\ out.entities = <<>>
             /\ Len(out.concepts) = Len(in.concepts.items)
        /\ (Malformed(in.concepts) /\ WellFormed(in.entities)
              /\ WellFormed(in.relationships)) =>
             /\ out.concepts = <<>>
             /\ Len(out.entities) = Len(in.entities.items)
        /\ (Malformed(in.relationships) /\ WellFormed(in.entities)
              /\ WellFormed(in.concepts)) =>
             /\ out.relationships = <<>>
             /\ Len(out.entities) = Len(in.entities.items)
             /\ Len(out.concepts) = Len(in.concepts.items)

\* C20: applyExtraction does not modify the graph it was given: after the
\* call that graph's metadata, the evidence of each of its relationships and
\* the related-id sets of each of its entities and concepts are as before
C20_GivenGraphUntouched ==
  lastCall.op = "applyExtraction" =>
    LET before == lastCall.pre
        after == lastCall.given
    IN  /\ after.metadata = before.metadata
        /\ \A i \in 1..Len(before.relationships) :
             after.relationships[i].evidence = before.relationships[i].evidence
        /\ \A id \in DOMAIN before.entities :
             /\ after.entities[id].relatedEntities = before.entities[id].relatedEntities
             /\ after.entities[id].relatedConcepts = before.entities[id].relatedConcepts
        /\ \A id \in DOMAIN before.concepts :
             /\ after.concepts[id].relatedEntities = before.concepts[id].relatedEntities
             /\ after.concepts[id].relatedConcepts = before.concepts[id].relatedConcepts

\* C21: after any sequence of applyExtraction calls from the empty graph no
\* relationship has sourceId = targetId: a candidate whose two names
\* normalize to one id adds nothing to the relationship list
C21_NoSelfLoop ==
  \A i \in 1..Len(graph.relationships) :
    graph.relationships[i].sourceId # graph.relationships[i].targetId

\* the ids an extraction's candidates normalize to
MentionedIds(list) == {GenerateId(list[i].name) : i \in 1..Len(list)}

\* every mentioned item gained one occurrence of the post, at the end, and
\* no other item's occurrences changed
OneOccurrenceEach(before, after, list, post) ==
  \A id \in DOMAIN after :
    LET old == IF id \in DOMAIN before THEN before[id].occurrences ELSE <<>>
    IN  IF id \in MentionedIds(list)
        THEN after[id].occurrences = Append(old, Occurrence(post))
        ELSE after[id].occurrences = old

\* C22: each applyExtraction call appends exactly one occurrence, at the
\* end, to every entity and concept the extraction mentions and none to any
\* other item, also when several candidates normalize to the same id
C22_OneOccurrencePerDocument ==
  lastCall.op = "applyExtraction" =>
    /\ OneOccurrenceEach(lastCall.pre.entities, graph.entities,
                         lastCall.extraction.entities, lastCall.post)
    /\ OneOccurrenceEach(lastCall.pre.concepts, graph.concepts,
                         lastCall.extraction.concepts, lastCall.post)

\* C23: in every graph reachable by applyExtraction and applyIntegration
\* calls each relationship's id is the value derived from its own current
\* (sourceId, type, targetId) triple
C23_IdFollowsTriple ==
  \A i \in 1..Len(graph.relationships) :
    LET r == graph.relationships[i]
    IN  r.id = RelKey(r.sourceId, r.type, r.targetId)

\* the graph before and after the i-th merge instruction of a batch
MergeBefore(g, merges, i) == MergeLoop(g, SubSeq(merges, 1, i - 1))

MergeAfter(g, merges, i) == MergeLoop(g, SubSeq(merges, 1, i))

\* the promotion rule of applyExtraction on an occurrence count
Promoted(item) ==
  /\ Len(item.occurrences) >= 5 => item.significance = "major"
  /\ Len(item.occurrences) >= 2 => Rank(item.significance) >= Rank("moderate")

\* the i-th instruction merged two different items of map, and the kept one
\* is promoted
KeptIsPromoted(before, after, m) ==
  (m.keep # m.merge /\ m.keep \in DOMAIN before /\ m.merge \in DOMAIN before) =>
    Promoted(after[m.keep])

\* C24: after applyIntegration applies a merge, and before any significance
\* update of the batch, the kept item's significance follows the promotion
\* rule of applyExtraction on the combined occurrence count
C24_MergePromotes ==
  lastCall.op = "applyIntegration" =>
    \A i \in 1..Len(lastCall.integration.merges) :
      LET m == lastCall.integration.merges[i]
          before == MergeBefore(lastCall.pre, lastCall.integration.merges, i)
          after == MergeAfter(lastCall.pre, lastCall.integration.merges, i)
      IN  /\ KeptIsPromoted(before.entities, after.entities, m)
          /\ KeptIsPromoted(before.concepts, after.concepts, m)

\* the number of occurrence entries of the items of a map
RECURSIVE SumOccurrences(_, _)
SumOccurrences(m, ids) ==
  IF ids = {} THEN 0
  ELSE LET id == CHOOSE x \in ids : TRUE
       IN  Len(m[id].occurrences) + SumOccurrences(m, ids \ {id})

TotalOccurrences(m) == SumOccurrences(m, DOMAIN m)

\* C30: the merge phase of applyIntegration conserves occurrences: the
\* number of occurrence entries summed over all entities, and over all
\* concepts, is the same after the batch as before it (no later phase of
\* the call touches an occurrence list)
C30_MergeConservesOccurrences ==
  lastCall.op = "applyIntegration" =>
    /\ TotalOccurrences(graph.entities) = TotalOccurrences(lastCall.pre.entities)
    /\ TotalOccurrences(graph.concepts) = TotalOccurrences(lastCall.pre.concepts)

\* this step advanced currentPostIndex to a multiple of 5 short of the end
AdvancedToSavePoint ==
  /\ state # Null
  /\ state' # Null
  /\ state'.currentPostIndex = state.currentPostIndex + 1
  /\ state'.currentPostIndex % SaveEvery = 0
  /\ state'.currentPostIndex < state'.totalPosts

\* C25: whenever currentPostIndex advances to a multiple of 5, whether the
\* document just handled succeeded or failed, a checkpoint of the full
\* state carrying that index is stored before the next extraction begins
C25_CheckpointEveryFive ==
  [][AdvancedToSavePoint => storage' = SaveStateToStorage(state')]_vars

\* a processQueue call is running (it awaits an external call)
LoopRunning == \E l \in 1..MaxLoops : loops[l].pc # "none"

\* C26: after a pause has taken effect (the loop stored the checkpoint and
\* returned without completing) status is paused until a resume; more
\* generally status is processing only while a processQueue call is running
C26_StatusFollowsLoop ==
  state # Null =>
    /\ hist.run = "paused" => state.status = "paused"
    /\ state.status = "processing" => LoopRunning

\* currentPostIndex of the state a restart would load (0 when there is none)
CheckpointIndex ==
  IF LoadStateFromStorage(storage) = Null THEN 0
  ELSE LoadStateFromStorage(storage).currentPostIndex

\* C27: at any moment of a run the stored checkpoint's currentPostIndex (0
\* when no checkpoint exists) is at most 1 behind the one in memory, so a
\* kill and restart loses at most the most recent document
C27_CheckpointAtMostOneBehind ==
  (state # Null /\ LoopRunning) =>
    state.currentPostIndex - CheckpointIndex <= 1

\* how many times document d was passed to extractFromPost
TimesHanded(d) == Cardinality({i \in 1..Len(hist.handed) : hist.handed[i] = d})

\* C28: under every interleaving of pause, un-pause and stop signals with
\* the calls in flight, when status is complete every document from the
\* index the state was created or loaded with has been passed to the
\* extraction client exactly once, and currentPostIndex never exceeds
\* totalPosts
C28_EachDocumentOnce ==
  state # Null =>
    /\ state.currentPostIndex <= state.totalPosts
    /\ state.status = "complete" =>
         \A d \in 0..(state.totalPosts - 1) :
           TimesHanded(d) = IF d >= hist.from THEN 1 ELSE 0

\* C29: every stored checkpoint is self-consistent, whenever it was written
\* (periodically, on pause, or on a stop clicked while an extraction or
\* integration call is in flight): its graph holds the contribution of no
\* document at or above its currentPostIndex
C29_CheckpointConsistent ==
  storage.kind = "json" =>
    storage.graph.metadata.totalPostsProcessed <= storage.currentPostIndex

====
